---- MODULE Spec2Model ----
(***************************************************************************)
(* A model of src/client/argv.c: the tokenizer buildargv (a string to an   *)
(* argument vector) and the response-file expander expandargv.             *)
(*                                                                         *)
(* A C string is a sequence of one-character strings; the terminating NUL  *)
(* is the value EOS read at offset Len+1.  Two specifications share the    *)
(* module: BuildSpec runs buildargv statement by statement on one input,   *)
(* Spec runs expandargv, one loop iteration per step, over a heap of       *)
(* slot arrays and strings and a fixed file system.                        *)
(***************************************************************************)
EXTENDS Integers, Sequences, FiniteSets, TLC

VARIABLES
  \* ---- buildargv (BuildSpec)
  input,            \* the string handed to buildargv
  isnull,           \* TRUE when the caller handed buildargv a NULL pointer
  pos,              \* offset of the moving pointer `input' (1-based)
  squote, dquote, bsquote,
  argc, maxargc,
  argv,             \* the slot array of buildargv (<<>> while argv == NULL)
  copybuf,          \* the characters written through `arg' so far
  bpc,              \* position in buildargv
  argstart,         \* history: where the argument being scanned began
  \* ---- expandargv (Spec)
  argcp,            \* *argcp
  argvp,            \* *argvp: the address of a slot array in vecs
  i,
  iteration_limit,
  vecs,             \* heap of slot arrays: address -> [slots, live]
  strs,             \* heap of strings: address -> [val, live]
  pc,               \* "loop", "returned" or "exit"
  exitcode,         \* status given to exit(), 0 while the process runs
  diag,             \* which diagnostic was printed before exit()
  input0,           \* the caller's vector at the call (string values)
  ndup,             \* history: number of dupargv calls
  nsubst            \* history: number of substitutions

bvars == <<input, isnull, pos, squote, dquote, bsquote, argc, maxargc, argv,
           copybuf, bpc, argstart>>
evars == <<argcp, argvp, i, iteration_limit, vecs, strs, pc, exitcode, diag,
           input0, ndup, nsubst>>
vars == <<bvars, evars>>

\* ------------------------------------------------------------------ bounds

\* Longest tokenizer input drawn exhaustively from Alphabet.
MaxLen == 4
\* Longest caller vector drawn exhaustively from the element sets.
MaxArgc == 3
\* The ceiling on '@' candidates (2000 in the source, scaled down).
IterationLimit == 3

\* ------------------------------------------------------------- characters

EOS == "NUL"
\* What a read beyond the terminator yields: any value at all.
OOB == "OOB"

\* isspace() in the C locale; "\v" has no TLA+ escape and is left out of the
\* inputs as well.
IsSpace(c) == c \in {" ", "\t", "\n", "\f", "\r"}

CharAt(s, p) ==
  IF p >= 1 /\ p <= Len(s) THEN s[p]
  ELSE IF p = Len(s) + 1 THEN EOS
  ELSE OOB

RECURSIVE consume_whitespace(_, _)
consume_whitespace(s, p) ==
  IF IsSpace(CharAt(s, p)) THEN consume_whitespace(s, p + 1) ELSE p

RECURSIVE OnlyWhitespaceFrom(_, _)
OnlyWhitespaceFrom(s, p) ==
  IF CharAt(s, p) # EOS /\ IsSpace(CharAt(s, p))
  THEN OnlyWhitespaceFrom(s, p + 1)
  ELSE CharAt(s, p) = EOS

only_whitespace_never(s) == FALSE
only_whitespace(s) == OnlyWhitespaceFrom(s, 1)

\* ------------------------------------------------------------- buildargv

INITIAL_MAXARGC == 8

\* A slot of buildargv's array: a string, the NULL sentinel, or a slot that
\* malloc/realloc handed out and nothing wrote yet.
StrSlot(s) == [tag |-> "str", val |-> s]
NullSlot == [tag |-> "null", val |-> <<>>]
UninitSlot == [tag |-> "uninit", val |-> <<>>]

\* Line 218: does the character end the argument?
IsDelimiterIgnoringEscape(c, sq, dq, bs) == IsSpace(c) /\ ~sq /\ ~dq
IsDelimiter(c, sq, dq, bs) == IsSpace(c) /\ ~sq /\ ~dq /\ ~bs

\* The quoting state of the scan: the three flags and the argument so far.
ScanState(sq, dq, bs, a) == [squote |-> sq, dquote |-> dq, bsquote |-> bs, arg |-> a]

\* A tokenizer in which a single quote shields the backslash: the squote
\* test comes before the backslash test.
ScanCharSquoteFirst(st, c) ==
  IF st.bsquote THEN [st EXCEPT !.bsquote = FALSE, !.arg = Append(st.arg, c)]
  ELSE IF st.squote THEN
    (IF c = "'" THEN [st EXCEPT !.squote = FALSE]
     ELSE [st EXCEPT !.arg = Append(st.arg, c)])
  ELSE IF c = "\\" THEN [st EXCEPT !.bsquote = TRUE]
  ELSE IF st.dquote THEN
    (IF c = "\"" THEN [st EXCEPT !.dquote = FALSE]
     ELSE [st EXCEPT !.arg = Append(st.arg, c)])
  ELSE IF c = "'" THEN [st EXCEPT !.squote = TRUE]
  ELSE IF c = "\"" THEN [st EXCEPT !.dquote = TRUE]
  ELSE [st EXCEPT !.arg = Append(st.arg, c)]

\* A tokenizer whose escape flag is tested after the quote characters, so an
\* escaped quote still opens or closes its mode.
ScanCharEscapeLast(st, c) ==
  IF c = "\\" /\ ~st.bsquote THEN [st EXCEPT !.bsquote = TRUE]
  ELSE IF st.squote THEN
    (IF c = "'" THEN [st EXCEPT !.squote = FALSE, !.bsquote = FALSE]
     ELSE [st EXCEPT !.bsquote = FALSE, !.arg = Append(st.arg, c)])
  ELSE IF st.dquote THEN
    (IF c = "\"" THEN [st EXCEPT !.dquote = FALSE, !.bsquote = FALSE]
     ELSE [st EXCEPT !.bsquote = FALSE, !.arg = Append(st.arg, c)])
  ELSE IF c = "'" THEN [st EXCEPT !.squote = TRUE, !.bsquote = FALSE]
  ELSE IF c = "\"" THEN [st EXCEPT !.dquote = TRUE, !.bsquote = FALSE]
  ELSE [st EXCEPT !.bsquote = FALSE, !.arg = Append(st.arg, c)]

\* A tokenizer that copies the quote characters it interprets.
ScanCharKeepsQuotes(st, c) ==
  IF st.bsquote THEN [st EXCEPT !.bsquote = FALSE, !.arg = Append(st.arg, c)]
  ELSE IF c = "\\" THEN [st EXCEPT !.bsquote = TRUE]
  ELSE IF st.squote THEN
    (IF c = "'" THEN [st EXCEPT !.squote = FALSE, !.arg = Append(st.arg, c)]
     ELSE [st EXCEPT !.arg = Append(st.arg, c)])
  ELSE IF st.dquote THEN
    (IF c = "\"" THEN [st EXCEPT !.dquote = FALSE, !.arg = Append(st.arg, c)]
     ELSE [st EXCEPT !.arg = Append(st.arg, c)])
  ELSE IF c = "'" THEN [st EXCEPT !.squote = TRUE, !.arg = Append(st.arg, c)]
  ELSE IF c = "\"" THEN [st EXCEPT !.dquote = TRUE, !.arg = Append(st.arg, c)]
  ELSE [st EXCEPT !.arg = Append(st.arg, c)]

\* A tokenizer whose quote characters open their mode inside the other one.
ScanCharOverlap(st, c) ==
  IF st.bsquote THEN [st EXCEPT !.bsquote = FALSE, !.arg = Append(st.arg, c)]
  ELSE IF c = "\\" THEN [st EXCEPT !.bsquote = TRUE]
  ELSE IF c = "'" THEN [st EXCEPT !.squote = ~st.squote]
  ELSE IF c = "\"" THEN [st EXCEPT !.dquote = ~st.dquote]
  ELSE [st EXCEPT !.arg = Append(st.arg, c)]

\* Lines 224-269: the effect of one character that does not end the argument.
ScanChar(st, c) ==
  IF st.bsquote THEN [st EXCEPT !.bsquote = FALSE, !.arg = Append(st.arg, c)]
  ELSE IF c = "\\" THEN [st EXCEPT !.bsquote = TRUE]
  ELSE IF st.squote THEN
    (IF c = "'" THEN [st EXCEPT !.squote = FALSE]
     ELSE [st EXCEPT !.arg = Append(st.arg, c)])
  ELSE IF st.dquote THEN
    (IF c = "\"" THEN [st EXCEPT !.dquote = FALSE]
     ELSE [st EXCEPT !.arg = Append(st.arg, c)])
  ELSE IF c = "'" THEN [st EXCEPT !.squote = TRUE]
  ELSE IF c = "\"" THEN [st EXCEPT !.dquote = TRUE]
  ELSE [st EXCEPT !.arg = Append(st.arg, c)]

\* A tokenizer that looks for the closing quote, or the escaped character,
\* beyond the terminator.
ArgEndsOnlyWhenClosed(s, p, st) ==
  \/ CharAt(s, p) = EOS /\ ~st.squote /\ ~st.dquote /\ ~st.bsquote
  \/ IsDelimiter(CharAt(s, p), st.squote, st.dquote, st.bsquote)

\* Line 216 and line 218: the inner loop stops at the terminator or at a
\* delimiter.
ArgEnds(s, p, st) ==
  \/ CharAt(s, p) = EOS
  \/ IsDelimiter(CharAt(s, p), st.squote, st.dquote, st.bsquote)

\* Line 278: the whitespace after an argument is skipped before the test.
SkipTrailingOmitted(s, p) == p
SkipTrailing(s, p) == consume_whitespace(s, p)

\* Line 280: the do-while test.
LoopAgain(s, p) == CharAt(s, p) # EOS

\* Line 193: a do-while runs its body once before any test; a while loop
\* would test first.
FirstPassAsWhile(s, p) == CharAt(s, p) # EOS
FirstPass(s, p) == TRUE

\* Lines 198-213: the slot array after the capacity check, with its capacity.
Grown(a, ac, mx) ==
  IF mx = 0 \/ ac >= mx - 1
  THEN LET nmx == IF Len(a) = 0 THEN INITIAL_MAXARGC ELSE mx * 2
           na == [k \in 1..nmx |-> IF k <= Len(a) THEN a[k] ELSE UninitSlot]
       IN [argv |-> [na EXCEPT ![ac + 1] = NullSlot], maxargc |-> nmx]
  ELSE [argv |-> a, maxargc |-> mx]

\* buildargv as a function of its input: the inner loop (lines 216-272) ...
RECURSIVE ScanArg(_, _, _)
ScanArg(s, p, st) ==
  IF ArgEnds(s, p, st) THEN [pos |-> p, st |-> st]
  ELSE ScanArg(s, p + 1, ScanChar(st, CharAt(s, p)))

\* ... and the do-while loop (lines 193-280), collecting the arguments.
RECURSIVE BuildLoop(_, _, _, _)
BuildLoop(s, p, st, acc) ==
  LET p1 == consume_whitespace(s, p)
      r == ScanArg(s, p1, [st EXCEPT !.arg = <<>>])
      acc1 == Append(acc, r.st.arg)
      p2 == SkipTrailing(s, r.pos)
  IN IF LoopAgain(s, p2) THEN BuildLoop(s, p2, r.st, acc1) ELSE acc1

buildargv(s) ==
  IF FirstPass(s, 1)
  THEN BuildLoop(s, 1, ScanState(FALSE, FALSE, FALSE, <<>>), <<>>)
  ELSE <<>>

\* The live elements of buildargv's array: slots 0 .. argc-1.
BuildResult == [k \in 1..argc |-> argv[k].val]

Alphabet == {"a", " ", "\n", "'", "\"", "\\"}

StringsUpTo(n) == UNION {[1..k -> Alphabet] : k \in 0..n}

\* The inputs of the specification's examples, and one with more arguments
\* than the initial capacity holds.
ExampleInputs ==
  { <<"a", " ", "'", "b", " ", "c", "'", " ", "d">>,
    <<"a", " ", "\"", "b", " ", "c", "\"", " ", "d">>,
    <<"a", "\\", " ", "b", " ", "c">>,
    <<"a", "\\", "\\", "b">>,
    <<"f", "o", "o", "'", "b", "a", "r", "'", "b", "a", "z">>,
    <<"'", "a", "\\", "'", "b", "'">>,
    <<"a", " ", "a", " ", "a", " ", "a", " ", "a", " ", "a", " ", "a", " ",
      "a", " ", "a">> }

Inputs == StringsUpTo(MaxLen) \cup ExampleInputs

ExpanderIdle ==
  /\ argcp = 0 /\ argvp = 0 /\ i = 0 /\ iteration_limit = 0
  /\ vecs = <<>> /\ strs = <<>> /\ pc = "idle" /\ exitcode = 0
  /\ diag = "none" /\ input0 = <<>> /\ ndup = 0 /\ nsubst = 0

BuildInit ==
  /\ isnull \in BOOLEAN
  /\ input \in (IF isnull THEN {<<>>} ELSE Inputs)
  /\ pos = 1
  /\ squote = FALSE /\ dquote = FALSE /\ bsquote = FALSE
  /\ argc = 0 /\ maxargc = 0
  /\ argv = <<>>
  /\ copybuf = <<>>
  /\ bpc = "entry"
  /\ argstart = 1
  /\ ExpanderIdle

\* Lines 178-193: a NULL input returns NULL; otherwise the locals are set up
\* and the do-while loop is entered.
BuildEntry ==
  /\ bpc = "entry"
  /\ bpc' = IF isnull THEN "null"
            ELSE IF FirstPass(input, pos) THEN "top" ELSE "done"
  /\ UNCHANGED <<input, isnull, pos, squote, dquote, bsquote, argc, maxargc,
                 argv, copybuf, argstart>>
  /\ UNCHANGED evars

\* Lines 196-215: skip whitespace, make room for one more slot, start an
\* argument at the head of copybuf.
BuildTop ==
  /\ bpc = "top"
  /\ pos' = consume_whitespace(input, pos)
  /\ LET g == Grown(argv, argc, maxargc)
     IN argv' = g.argv /\ maxargc' = g.maxargc
  /\ copybuf' = <<>>
  /\ argstart' = consume_whitespace(input, pos)
  /\ bpc' = "scan"
  /\ UNCHANGED <<input, isnull, squote, dquote, bsquote, argc>>
  /\ UNCHANGED evars

\* Lines 216-271: one character of the argument.
BuildScan ==
  /\ bpc = "scan"
  /\ ~ArgEnds(input, pos, ScanState(squote, dquote, bsquote, copybuf))
  /\ LET st == ScanChar(ScanState(squote, dquote, bsquote, copybuf),
                        CharAt(input, pos))
     IN /\ squote' = st.squote
        /\ dquote' = st.dquote
        /\ bsquote' = st.bsquote
        /\ copybuf' = st.arg
  /\ pos' = pos + 1
  /\ UNCHANGED <<input, isnull, argc, maxargc, argv, bpc, argstart>>
  /\ UNCHANGED evars

\* Lines 216/220 and 273-283: the argument ends; it is stored, the sentinel
\* follows it, trailing whitespace is skipped and the do-while test decides.
BuildEndArg ==
  /\ bpc = "scan"
  /\ ArgEnds(input, pos, ScanState(squote, dquote, bsquote, copybuf))
  /\ argv' = [argv EXCEPT ![argc + 1] = StrSlot(copybuf), ![argc + 2] = NullSlot]
  /\ argc' = argc + 1
  /\ pos' = SkipTrailing(input, pos)
  /\ bpc' = IF LoopAgain(input, SkipTrailing(input, pos)) THEN "top" ELSE "done"
  /\ UNCHANGED <<input, isnull, squote, dquote, bsquote, maxargc, copybuf,
                 argstart>>
  /\ UNCHANGED evars

BuildNext == BuildEntry \/ BuildTop \/ BuildScan \/ BuildEndArg

BuildSpec == BuildInit /\ [][BuildNext]_vars

\* buildargv is sequential code: while a statement remains, one is executed.
BuildFairSpec == BuildSpec /\ WF_vars(BuildNext)

\* ------------------------------------------------------------ file system

\* n copies of the character c.
Rep(c, n) == [k \in 1..n |-> c]

\* The element that refers to the response file at `path'.
Ref(path) == <<"@">> \o path

\* The file system of the run.  It does not change during a call.
\*   r      a file holding  -a -b
\*   e      an empty file
\*   w      a file holding a blank and a newline
\*   s      a file holding  @s            (refers to itself)
\*   p, q   p holds  -x @q , q holds  @p  (q refers back to p)
\*   t      a file holding  @e @r         (several references)
\*   c, cc, ...  a chain of IterationLimit files, each holding a reference
\*          to the next, the last holding  -a
\*   d      a directory
\*   u      a file stat() finds and fopen() cannot open
\*   n      a file fopen() opens and fseek() fails on (a FIFO)
\* Every other path does not exist.
IsChainName(path) ==
  /\ Len(path) >= 1
  /\ Len(path) <= IterationLimit
  /\ \A k \in 1..Len(path) : path[k] = "c"

FileKind(path) ==
  IF path \in {<<"r">>, <<"e">>, <<"w">>, <<"s">>, <<"p">>, <<"q">>, <<"t">>}
     \/ IsChainName(path)
  THEN "file"
  ELSE IF path = <<"d">> THEN "dir"
  ELSE IF path = <<"u">> THEN "unreadable"
  ELSE IF path = <<"n">> THEN "noseek"
  ELSE "missing"

FileContent(path) ==
  IF path = <<"r">> THEN <<"-", "a", " ", "-", "b">>
  ELSE IF path = <<"w">> THEN <<" ", "\n">>
  ELSE IF path = <<"s">> THEN Ref(<<"s">>)
  ELSE IF path = <<"p">> THEN <<"-", "x", " ">> \o Ref(<<"q">>)
  ELSE IF path = <<"q">> THEN Ref(<<"p">>)
  ELSE IF path = <<"t">> THEN Ref(<<"e">>) \o <<" ">> \o Ref(<<"r">>)
  ELSE IF IsChainName(path) THEN
    (IF Len(path) < IterationLimit THEN Ref(Rep("c", Len(path) + 1))
     ELSE <<"-", "a">>)
  ELSE <<>>

\* Line 355: stat() fails for a path that does not exist.
StatFails(path) == FileKind(path) = "missing"
\* Line 357: S_ISDIR.
S_ISDIR_never(path) == FALSE
S_ISDIR(path) == FileKind(path) = "dir"
\* Line 364: fopen(path, "r").  A directory opens for reading; the code never
\* gets there with one.
FopenFails(path) == FileKind(path) \in {"missing", "unreadable"}
\* Lines 367-381: fseek/ftell/fread succeed on a regular file.
ReadFails(path) == FileKind(path) # "file"

\* ---------------------------------------------------------------- memory

\* A slot of a char* array: the address of a string in strs, NULL, or a slot
\* nothing has written since malloc/realloc handed it out.
PtrSlot(a) == [tag |-> "ptr", addr |-> a]
NullPtr == [tag |-> "null", addr |-> 0]
WildPtr == [tag |-> "uninit", addr |-> 0]

\* What reading a freed, wild or NULL char* as a string yields.
Garbage == <<"?">>

\* The string a slot points to.
StrAt(ss, slot) ==
  IF slot.tag = "ptr" /\ slot.addr \in 1..Len(ss) /\ ss[slot.addr].live
  THEN ss[slot.addr].val
  ELSE Garbage

\* Slot k (counted from 0, as in C) of a slot array.
SlotAt(slots, k) == IF k >= 0 /\ k < Len(slots) THEN slots[k + 1] ELSE WildPtr

\* The number of slots before the first NULL: the loops of lines 83 and 400.
CountToNull(slots) ==
  IF \E k \in 1..Len(slots) : slots[k].tag = "null"
  THEN (CHOOSE k \in 1..Len(slots) :
          /\ slots[k].tag = "null"
          /\ \A j \in 1..(k - 1) : slots[j].tag # "null") - 1
  ELSE Len(slots)

\* strdup of each string of `vals', appended to the string heap.
StrdupAll(ss, vals) == ss \o [k \in 1..Len(vals) |-> [val |-> vals[k], live |-> TRUE]]

\* The slots that point to the strings StrdupAll added, then NULL.
FreshSlots(ss, n) == [k \in 1..n |-> PtrSlot(Len(ss) + k)] \o <<NullPtr>>

\* free() of the string a slot points to.
FreeStr(ss, slot) ==
  IF slot.tag = "ptr" /\ slot.addr \in 1..Len(ss)
  THEN [ss EXCEPT ![slot.addr].live = FALSE]
  ELSE ss

\* realloc: the first slots are kept, new ones hold nothing yet.
Resized(slots, n) == [k \in 1..n |-> IF k <= Len(slots) THEN slots[k] ELSE WildPtr]

\* A move that leaves the last slot of the tail, the sentinel, behind.
MemmoveOneShort(slots, dst, src, n) ==
  [k \in 1..Len(slots) |->
     IF k - 1 >= dst /\ k - 1 < dst + n - 1
     THEN SlotAt(slots, src + (k - 1 - dst))
     ELSE slots[k]]

\* memmove (slots, dst, src, n), indexes counted from 0.
Memmove(slots, dst, src, n) ==
  [k \in 1..Len(slots) |->
     IF k - 1 >= dst /\ k - 1 < dst + n
     THEN SlotAt(slots, src + (k - 1 - dst))
     ELSE slots[k]]

\* memcpy (slots + dst, from, n).
Memcpy(slots, dst, from, n) ==
  [k \in 1..Len(slots) |->
     IF k - 1 >= dst /\ k - 1 < dst + n
     THEN SlotAt(from, k - 1 - dst)
     ELSE slots[k]]

\* The string values of slots 0 .. n-1 of the array at address vp.
Contents(vs, ss, vp, n) == [k \in 1..n |-> StrAt(ss, SlotAt(vs[vp].slots, k - 1))]

\* The caller's view after or during the call: *argvp up to *argcp.
Vector == Contents(vecs, strs, argvp, argcp)

\* ------------------------------------------------------------ expandargv

\* Line 315: the address *argvp holds at the call.
original_argv == 1

\* Line 313.
InitialIBeforeProgram == 0 - 1
InitialI == 0

\* size_t arithmetic wraps.  The width of size_t is scaled down to 30 bits,
\* the widest the model checker's integers leave room for.
SizeMod == 1073741824

\* Line 414: *argcp += file_argc - 1, computed in size_t and converted back
\* to int.
ArgcAfterNoMinus(c, n) == c + n
ArgcAfter(c, n) ==
  LET sum == ((c % SizeMod) + ((n - 1) % SizeMod)) % SizeMod
  IN IF sum >= SizeMod \div 2 THEN sum - SizeMod ELSE sum

\* Line 422: --i, so that line 321 moves back to the spliced index.
CursorAfterSpliceNoStepBack(idx) == idx
CursorAfterSplice(idx) == idx - 1

\* Line 349: the test made on the decremented counter.
LimitExhaustedOneEarly(limit) == limit <= 1
LimitExhaustedNever(limit) == FALSE
LimitExhausted(limit) == limit = 0

\* Line 396: is *argvp still the caller's array?
NeedsCopyNever(vp) == FALSE
NeedsCopy(vp) == vp = original_argv

\* The index the loop test of line 321 moves to, and the element there.
Idx == i + 1
Filename == StrAt(strs, SlotAt(vecs[argvp].slots, Idx))
\* filename + 1
Path == Tail(Filename)

\* Lines 321, 345-346: the loop goes on and the element begins with '@'.
AtCandidate ==
  /\ pc = "loop"
  /\ Idx < argcp
  /\ CharAt(Filename, 1) = "@"

\* Elements the caller's vector is drawn from: index 0, and the others.
Elems0 == {<<"p">>, Ref(<<"r">>), Ref(<<"d">>), Ref(<<"m">>)}
Elems ==
  { <<"-", "x">>,
    Ref(<<"r">>), Ref(<<"e">>), Ref(<<"w">>), Ref(<<"s">>), Ref(<<"p">>),
    Ref(<<"t">>), Ref(<<"d">>), Ref(<<"m">>), Ref(<<"u">>), Ref(<<"n">>) }
  \cup { Ref(Rep("c", k)) : k \in 1..IterationLimit }

VectorsUpTo(n) ==
  UNION { { <<e0>> \o rest : e0 \in Elems0, rest \in [1..k -> Elems] } : k \in 0..(n - 1) }

\* The vectors of the specification's examples.
ExampleVectors ==
  { << <<"p">>, <<"-", "x">>, Ref(<<"r">>), <<"-", "y">> >>,
    << <<"p">>, <<"-", "x">>, Ref(<<"e">>), <<"-", "y">> >>,
    << <<"p">>, <<"-", "x">>, Ref(<<"w">>), <<"-", "y">> >>,
    \* as many references to a missing file as the ceiling
    << <<"p">> >> \o [k \in 1..IterationLimit |-> Ref(<<"m">>)] }

CallerVectors == VectorsUpTo(MaxArgc) \cup ExampleVectors

TokenizerIdle ==
  /\ input = <<>> /\ isnull = FALSE /\ pos = 1
  /\ squote = FALSE /\ dquote = FALSE /\ bsquote = FALSE
  /\ argc = 0 /\ maxargc = 0 /\ argv = <<>> /\ copybuf = <<>> /\ bpc = "idle"
  /\ argstart = 1

\* The caller's vector: its strings at addresses 1 .. n, its slot array at
\* address original_argv with the sentinel at index n, and *argcp = n.
Init ==
  /\ input0 \in CallerVectors
  /\ strs = [k \in 1..Len(input0) |-> [val |-> input0[k], live |-> TRUE]]
  /\ vecs = << [slots |-> [k \in 1..Len(input0) |-> PtrSlot(k)] \o <<NullPtr>>,
               live |-> TRUE] >>
  /\ argvp = original_argv
  /\ argcp = Len(input0)
  /\ i = InitialI
  /\ iteration_limit = IterationLimit
  /\ pc = "loop"
  /\ exitcode = 0
  /\ diag = "none"
  /\ ndup = 0
  /\ nsubst = 0
  /\ TokenizerIdle

\* An expander whose loop stops one element before the end.
ReturnOneEarly ==
  /\ pc = "loop"
  /\ ~(Idx < argcp - 1)
  /\ i' = Idx
  /\ pc' = "returned"
  /\ UNCHANGED <<argcp, argvp, iteration_limit, vecs, strs, exitcode, diag,
                 input0, ndup, nsubst>>
  /\ UNCHANGED bvars

\* Line 321: the loop test fails and expandargv returns.
Return ==
  /\ pc = "loop"
  /\ ~(Idx < argcp)
  /\ i' = Idx
  /\ pc' = "returned"
  /\ UNCHANGED <<argcp, argvp, iteration_limit, vecs, strs, exitcode, diag,
                 input0, ndup, nsubst>>
  /\ UNCHANGED bvars

\* Lines 345-347: an element that does not begin with '@' is passed over.
SkipOrdinary ==
  /\ pc = "loop"
  /\ Idx < argcp
  /\ CharAt(Filename, 1) # "@"
  /\ i' = Idx
  /\ UNCHANGED <<argcp, argvp, iteration_limit, vecs, strs, pc, exitcode, diag,
                 input0, ndup, nsubst>>
  /\ UNCHANGED bvars

\* Lines 349-353: the counter reaches zero: diagnostic and exit (1).
LimitExit ==
  /\ AtCandidate
  /\ LimitExhausted(iteration_limit - 1)
  /\ iteration_limit' = iteration_limit - 1
  /\ i' = Idx
  /\ pc' = "exit"
  /\ exitcode' = 1
  /\ diag' = "too many @-files encountered"
  /\ UNCHANGED <<argcp, argvp, vecs, strs, input0, ndup, nsubst>>
  /\ UNCHANGED bvars

\* An expander that counts a candidate only once stat() has found its path.
SkipMissingNoDecrement ==
  /\ AtCandidate
  /\ StatFails(Path)
  /\ i' = Idx
  /\ UNCHANGED <<argcp, argvp, iteration_limit, vecs, strs, pc, exitcode, diag,
                 input0, ndup, nsubst>>
  /\ UNCHANGED bvars

\* An expander that stops scanning at a path stat() cannot find (break for
\* continue).
SkipMissingStops ==
  /\ AtCandidate
  /\ ~LimitExhausted(iteration_limit - 1)
  /\ StatFails(Path)
  /\ iteration_limit' = iteration_limit - 1
  /\ i' = Idx
  /\ pc' = "returned"
  /\ UNCHANGED <<argcp, argvp, vecs, strs, exitcode, diag, input0, ndup, nsubst>>
  /\ UNCHANGED bvars

\* Lines 355-356: stat() fails, the element stays.
SkipMissing ==
  /\ AtCandidate
  /\ ~LimitExhausted(iteration_limit - 1)
  /\ StatFails(Path)
  /\ iteration_limit' = iteration_limit - 1
  /\ i' = Idx
  /\ UNCHANGED <<argcp, argvp, vecs, strs, pc, exitcode, diag, input0, ndup,
                 nsubst>>
  /\ UNCHANGED bvars

\* Lines 357-361: the path is a directory: diagnostic and exit (1).
DirExit ==
  /\ AtCandidate
  /\ ~LimitExhausted(iteration_limit - 1)
  /\ ~StatFails(Path)
  /\ S_ISDIR(Path)
  /\ iteration_limit' = iteration_limit - 1
  /\ i' = Idx
  /\ pc' = "exit"
  /\ exitcode' = 1
  /\ diag' = "@-file refers to a directory"
  /\ UNCHANGED <<argcp, argvp, vecs, strs, input0, ndup, nsubst>>
  /\ UNCHANGED bvars

\* Lines 364-366: fopen() fails, the element stays.
SkipUnopenable ==
  /\ AtCandidate
  /\ ~LimitExhausted(iteration_limit - 1)
  /\ ~StatFails(Path)
  /\ ~S_ISDIR(Path)
  /\ FopenFails(Path)
  /\ iteration_limit' = iteration_limit - 1
  /\ i' = Idx
  /\ UNCHANGED <<argcp, argvp, vecs, strs, pc, exitcode, diag, input0, ndup,
                 nsubst>>
  /\ UNCHANGED bvars

\* Lines 367-381, 423-425: fseek, ftell or fread fails: goto error, the file
\* is closed and the element stays.
SkipReadError ==
  /\ AtCandidate
  /\ ~LimitExhausted(iteration_limit - 1)
  /\ ~StatFails(Path)
  /\ ~S_ISDIR(Path)
  /\ ~FopenFails(Path)
  /\ ReadFails(Path)
  /\ iteration_limit' = iteration_limit - 1
  /\ i' = Idx
  /\ UNCHANGED <<argcp, argvp, vecs, strs, pc, exitcode, diag, input0, ndup,
                 nsubst>>
  /\ UNCHANGED bvars

\* Lines 374-425: the file is read and tokenized, the vector is copied if it
\* is still the caller's, the element is freed and the tokens are spliced in
\* its place.  realloc may extend the array where it is or move it.
Substitute ==
  /\ AtCandidate
  /\ ~LimitExhausted(iteration_limit - 1)
  /\ ~StatFails(Path)
  /\ ~S_ISDIR(Path)
  /\ ~FopenFails(Path)
  /\ ~ReadFails(Path)
  /\ \E moved \in BOOLEAN :
       LET buffer == FileContent(Path)
           \* lines 387-394
           tokens == IF only_whitespace(buffer) THEN <<>> ELSE buildargv(buffer)
           strs1 == StrdupAll(strs, tokens)
           file_argv == FreshSlots(strs, Len(tokens))
           \* lines 396-397: dupargv
           copying == NeedsCopy(argvp)
           n0 == CountToNull(vecs[argvp].slots)
           dupvals == [k \in 1..n0 |-> StrAt(strs1, vecs[argvp].slots[k])]
           strs2 == IF copying THEN StrdupAll(strs1, dupvals) ELSE strs1
           vecs2 == IF copying
                    THEN Append(vecs, [slots |-> FreshSlots(strs1, n0), live |-> TRUE])
                    ELSE vecs
           argvp2 == IF copying THEN Len(vecs2) ELSE argvp
           \* lines 399-401
           file_argc == CountToNull(file_argv)
           \* line 403
           strs3 == FreeStr(strs2, SlotAt(vecs2[argvp2].slots, Idx))
           \* lines 406-408
           grown == Resized(vecs2[argvp2].slots, argcp + file_argc + 1)
           \* lines 409-411
           shifted == Memmove(grown, Idx + file_argc, Idx + 1, argcp - Idx)
           spliced == Memcpy(shifted, Idx, file_argv, file_argc)
           vecs3 == IF moved
                    THEN Append([vecs2 EXCEPT ![argvp2].live = FALSE],
                                [slots |-> spliced, live |-> TRUE])
                    ELSE [vecs2 EXCEPT ![argvp2].slots = spliced]
       IN /\ strs' = strs3
          /\ vecs' = vecs3
          /\ argvp' = IF moved THEN Len(vecs3) ELSE argvp2
          /\ argcp' = ArgcAfter(argcp, file_argc)
          /\ ndup' = IF copying THEN ndup + 1 ELSE ndup
  /\ iteration_limit' = iteration_limit - 1
  /\ nsubst' = nsubst + 1
  \* line 321 moved to Idx, line 422 steps back
  /\ i' = CursorAfterSplice(Idx)
  /\ UNCHANGED <<pc, exitcode, diag, input0>>
  /\ UNCHANGED bvars

Next ==
  \/ Return
  \/ SkipOrdinary
  \/ LimitExit
  \/ SkipMissing
  \/ DirExit
  \/ SkipUnopenable
  \/ SkipReadError
  \/ Substitute

Spec == Init /\ [][Next]_vars

\* expandargv is sequential code: while the loop can go on, it does.  This is
\* weak fairness of Next written out: a step of Next is possible exactly
\* while pc = "loop" (one of the branches of lines 321-425 applies to every
\* state of the loop), so a run either leaves the loop or keeps taking steps.
FairSpec == Spec /\ ([]<>(pc # "loop") \/ []<><<Next>>_vars)

\* Either function is called: the two specifications side by side.
AllSpec == (Init \/ BuildInit) /\ [][Next \/ BuildNext]_vars

\* expandargv as a function of the vector's strings: the loop of lines
\* 321-425 from index k on, with `limit' left of the budget.  It gives how
\* the call ends and the strings of the vector at that point.
RECURSIVE ExpandFrom(_, _, _)
ExpandFrom(v, k, limit) ==
  IF ~(k < Len(v)) THEN [status |-> "returned", vec |-> v]
  ELSE LET filename == v[k + 1]
           path == Tail(filename)
       IN IF CharAt(filename, 1) # "@" THEN ExpandFrom(v, k + 1, limit)
          ELSE IF LimitExhausted(limit - 1) THEN [status |-> "exit", vec |-> v]
          ELSE IF StatFails(path) THEN ExpandFrom(v, k + 1, limit - 1)
          ELSE IF S_ISDIR(path) THEN [status |-> "exit", vec |-> v]
          ELSE IF FopenFails(path) \/ ReadFails(path)
               THEN ExpandFrom(v, k + 1, limit - 1)
          ELSE LET buffer == FileContent(path)
                   file_argv == IF only_whitespace(buffer) THEN <<>>
                                ELSE buildargv(buffer)
               IN ExpandFrom(SubSeq(v, 1, k) \o file_argv \o SubSeq(v, k + 2, Len(v)),
                             k, limit - 1)

\* A call with a fresh budget.
expandargv(v) == ExpandFrom(v, InitialI + 1, IterationLimit)

\* ---------------------------------------------------- claims on buildargv

\* The whitespace characters of the C locale, as the claims mean them.
Whitespace == {" ", "\t", "\n", "\f", "\r"}

\* The character under the moving pointer.
Cur == CharAt(input, pos)

\* buildargv is reading a character of its input in the inner loop.
Scanning == bpc = "scan" /\ Cur # EOS

Str_a_bc_d == <<"a", " ", "'", "b", " ", "c", "'", " ", "d">>
Str_a_esc_b_c == <<"a", "\\", " ", "b", " ", "c">>
Str_a_bsbs_b == <<"a", "\\", "\\", "b">>
Str_sq_esc == <<"'", "a", "\\", "'", "b", "'">>

\* C2: a whitespace character ends the current argument only when no quote
\* mode is open and no escape is pending; inside single quotes, inside
\* double quotes or right after an escaping backslash it is appended to the
\* argument, which goes on; an argument that ends before the end of the
\* input ends at such a whitespace character; a 'b c' d yields [a, b c, d]
\* and a\<space>b c yields [a b, c].
C2_WhitespaceDelimits ==
  /\ [][(Scanning /\ Cur \in Whitespace) =>
          IF ~squote /\ ~dquote /\ ~bsquote
          THEN /\ argc' = argc + 1
               /\ argv'[argc + 1] = StrSlot(copybuf)
          ELSE /\ copybuf' = Append(copybuf, Cur)
               /\ argc' = argc
               /\ bpc' = "scan"
               /\ pos' = pos + 1]_vars
  /\ [][(Scanning /\ argc' = argc + 1) =>
          (Cur \in Whitespace /\ ~squote /\ ~dquote /\ ~bsquote)]_vars
  /\ [](bpc = "done" /\ input = Str_a_bc_d =>
          BuildResult = << <<"a">>, <<"b", " ", "c">>, <<"d">> >>)
  /\ [](bpc = "done" /\ input = Str_a_esc_b_c =>
          BuildResult = << <<"a", " ", "b">>, <<"c">> >>)

C2_Witness ==
  /\ bpc = "done"
  /\ input = Str_a_bc_d
  /\ BuildResult = << <<"a">>, <<"b", " ", "c">>, <<"d">> >>

\* C3 as stated: in single-quote mode every character other than a single
\* quote, a backslash included, is appended to the argument and leaves no
\* escape pending.
C3_NoEscapeInSingleQuotes ==
  [][(Scanning /\ squote /\ Cur # "'") =>
       (copybuf' = Append(copybuf, Cur) /\ ~bsquote')]_vars

\* C3, amended: in single-quote mode a backslash with no escape pending is
\* not copied and starts escape mode; the character after it, a single
\* quote included, is appended and does not close the quote; with no escape
\* pending a single quote closes the mode and every other character (a
\* double quote included) is appended; '<a>\'<b>' yields the one element a'b.
C3_SingleQuoteRules ==
  /\ [][(Scanning /\ squote) =>
          /\ IF bsquote
                THEN copybuf' = Append(copybuf, Cur) /\ ~bsquote' /\ squote'
             ELSE IF Cur = "\\"
                THEN copybuf' = copybuf /\ bsquote' /\ squote'
             ELSE IF Cur = "'"
                THEN copybuf' = copybuf /\ ~bsquote' /\ ~squote'
             ELSE copybuf' = Append(copybuf, Cur) /\ ~bsquote' /\ squote'
          /\ dquote' = dquote
          /\ argc' = argc
          /\ bpc' = "scan"]_vars
  /\ [](bpc = "done" /\ input = Str_sq_esc =>
          BuildResult = << <<"a", "'", "b">> >>)

C3_Witness ==
  /\ bpc = "done"
  /\ input = Str_sq_esc
  /\ BuildResult = << <<"a", "'", "b">> >>

\* C4: outside single quotes (no quote mode, or double-quote mode) a
\* backslash with no escape pending is not copied and sets the escape; the
\* next character, whatever it is, is appended, changes no quote mode, does
\* not end the argument, and clears the escape; a\<space>b c yields
\* [a b, c] and a\\b yields [a\b].
C4_BackslashEscapesOne ==
  /\ [][(Scanning /\ ~squote /\ ~bsquote /\ Cur = "\\") =>
          /\ copybuf' = copybuf
          /\ bsquote'
          /\ squote' = squote /\ dquote' = dquote
          /\ argc' = argc /\ bpc' = "scan"]_vars
  /\ [][(Scanning /\ ~squote /\ bsquote) =>
          /\ copybuf' = Append(copybuf, Cur)
          /\ ~bsquote'
          /\ squote' = squote /\ dquote' = dquote
          /\ argc' = argc /\ bpc' = "scan"]_vars
  /\ [](bpc = "done" /\ input = Str_a_esc_b_c =>
          BuildResult = << <<"a", " ", "b">>, <<"c">> >>)
  /\ [](bpc = "done" /\ input = Str_a_bsbs_b =>
          BuildResult = << <<"a", "\\", "b">> >>)

\* An escape is pending inside double quotes and the escaped character is a
\* double quote.
C4_Witness ==
  /\ bpc = "scan" /\ dquote /\ bsquote /\ Cur = "\""

\* C5: for an input that is empty or all whitespace buildargv does not
\* return NULL and returns exactly one element, the empty string, followed
\* by the sentinel.
C5_EmptyInputOneEmptyArg ==
  (~isnull /\ \A k \in 1..Len(input) : input[k] \in Whitespace) =>
    /\ bpc # "null"
    /\ bpc = "done" =>
         /\ argc = 1
         /\ argv[1] = StrSlot(<<>>)
         /\ argv[2] = NullSlot
         /\ buildargv(input) = << <<>> >>

C5_Witness ==
  /\ bpc = "done" /\ ~isnull
  /\ input = <<" ", "\n">>
  /\ argc = 1 /\ argv[1] = StrSlot(<<>>)

\* --------------------------------------------------- claims on expandargv

\* The step about to be taken substitutes the element at Idx: it is a
\* candidate, the budget is not used up, and its path is a readable file.
Resolving ==
  /\ AtCandidate
  /\ iteration_limit - 1 # 0
  /\ FileKind(Path) = "file"

AllWhitespace(s) == \A k \in 1..Len(s) : s[k] \in Whitespace

\* The replacement for a reference to `path': no element for an empty or
\* all-whitespace file, the tokens of its contents otherwise.
Replacement(path) ==
  IF AllWhitespace(FileContent(path)) THEN <<>> ELSE buildargv(FileContent(path))

Prog == <<"p">>
Opt(c) == <<"-", c>>

\* C1: a substitution at index Idx (>= 1) by a replacement R leaves
\* old[0..Idx-1], then R in order, then old[Idx+1..count-1], and the count
\* becomes count + Len(R) - 1; [p, -x, @r, -y] with r holding -a -b becomes
\* [p, -x, -a, -b, -y] and the count grows by 1.
C1_SpliceContract ==
  /\ [][Resolving =>
          LET old == Vector
              R == Replacement(Path)
          IN /\ Idx >= 1
             /\ Vector' = SubSeq(old, 1, Idx) \o R \o SubSeq(old, Idx + 2, argcp)
             /\ argcp' = argcp + Len(R) - 1]_vars
  /\ [](pc = "returned" /\ input0 = <<Prog, Opt("x"), Ref(<<"r">>), Opt("y")>> =>
          /\ Vector = <<Prog, Opt("x"), Opt("a"), Opt("b"), Opt("y")>>
          /\ argcp = Len(input0) + 1)

C1_Witness ==
  /\ pc = "returned"
  /\ input0 = <<Prog, Opt("x"), Ref(<<"r">>), Opt("y")>>
  /\ Vector = <<Prog, Opt("x"), Opt("a"), Opt("b"), Opt("y")>>
  /\ nsubst = 1

\* C6: a substitution by a file that is empty or all whitespace removes the
\* element: the later elements move down by one in their order, nothing is
\* inserted, and the count goes down by exactly 1 and stays at least 1;
\* [p, -x, @e, -y] and [p, -x, @w, -y] become [p, -x, -y].
C6_EmptyFileVanishes ==
  /\ [][(Resolving /\ AllWhitespace(FileContent(Path))) =>
          LET old == Vector
          IN /\ Vector' = SubSeq(old, 1, Idx) \o SubSeq(old, Idx + 2, argcp)
             /\ argcp' = argcp - 1
             /\ argcp' >= 1
             /\ nsubst' = nsubst + 1]_vars
  /\ [](pc = "returned"
        /\ input0 \in { <<Prog, Opt("x"), Ref(<<"e">>), Opt("y")>>,
                        <<Prog, Opt("x"), Ref(<<"w">>), Opt("y")>> } =>
          /\ Vector = <<Prog, Opt("x"), Opt("y")>>
          /\ argcp = Len(input0) - 1)

C6_Witness ==
  /\ pc = "returned"
  /\ input0 = <<Prog, Opt("x"), Ref(<<"w">>), Opt("y")>>
  /\ Vector = <<Prog, Opt("x"), Opt("y")>>
  /\ argcp = 3
  /\ nsubst = 1

\* The caller's slot array and strings are as they were at the call.
OriginalIntact ==
  /\ vecs[original_argv].live
  /\ vecs[original_argv].slots =
       [k \in 1..Len(input0) |-> PtrSlot(k)] \o <<NullPtr>>
  /\ \A k \in 1..Len(input0) : strs[k].live /\ strs[k].val = input0[k]

\* C7: the caller's array and strings are never written, resized or freed;
\* dupargv runs at most once, with the first substitution, after which
\* *argvp is a live array other than the caller's; while no substitution has
\* happened *argvp is the caller's array with its count and contents.
C7_CopyOnFirstWrite ==
  /\ OriginalIntact
  /\ ndup <= 1
  /\ vecs[argvp].live
  /\ nsubst >= 1 => (ndup = 1 /\ argvp # original_argv)
  /\ nsubst = 0 =>
       /\ ndup = 0
       /\ argvp = original_argv
       /\ argcp = Len(input0)
       /\ Vector = input0

\* Two substitutions were made and the caller's vector was copied once.
C7_Witness ==
  /\ pc = "returned"
  /\ nsubst = 2
  /\ ndup = 1
  /\ argvp # original_argv
  /\ OriginalIntact

\* The vector [p, @c..c] whose reference names the j-th file of the chain: a
\* chain of IterationLimit - j + 1 files.
ChainVector(j) == <<Prog, Ref(Rep("c", j))>>

\* C8: a chain of N files, 1 <= N < IterationLimit, is expanded fully (N
\* substitutions, the last file's arguments in place of the reference) and
\* the call does not exit; a reference to a file that refers to itself (s)
\* or back to an earlier file (p, through q) never returns, and the call
\* ends in exit (1).
C8_ChainAndCycle ==
  /\ \A j \in 2..IterationLimit :
       input0 = ChainVector(j) =>
         /\ pc # "exit"
         /\ pc = "returned" =>
              /\ Vector = <<Prog, Opt("a")>>
              /\ nsubst = IterationLimit - j + 1
  /\ input0 \in {<<Prog, Ref(<<"s">>)>>, <<Prog, Ref(<<"p">>)>>} =>
       /\ pc # "returned"
       /\ pc = "exit" => exitcode = 1

\* The longest chain below the ceiling was expanded.
C8_Witness ==
  /\ pc = "returned"
  /\ input0 = ChainVector(2)
  /\ nsubst = IterationLimit - 1
  /\ Vector = <<Prog, Opt("a")>>

\* C9 as stated: a vector with a reference to a directory at any index
\* never returns.
C9_DirAnywhereAborts ==
  (\E k \in 1..Len(input0) : input0[k] = Ref(<<"d">>)) => pc # "returned"

\* C9, amended: a vector with a reference to a directory at an index >= 1
\* never returns, wherever that index is, and the call ends in exit with a
\* non-zero status; at index 0 the element is not looked at.
C9_DirAfterProgramAborts ==
  (\E k \in 2..Len(input0) : input0[k] = Ref(<<"d">>)) =>
    /\ pc # "returned"
    /\ pc = "exit" => exitcode # 0

\* The directory is the last element, after a reference that was expanded.
C9_Witness ==
  /\ pc = "exit"
  /\ exitcode = 1
  /\ diag = "@-file refers to a directory"
  /\ input0 = <<Prog, Ref(<<"r">>), Ref(<<"d">>)>>

\* C10: the index examined is never 0; element 0 keeps its value; a vector
\* of one element, whatever it is, returns with no substitution, no
\* decrement and no exit.
C10_ProgramSlotSkipped ==
  /\ i >= 0
  /\ argcp >= 1 /\ StrAt(strs, SlotAt(vecs[argvp].slots, 0)) = input0[1]
  /\ Len(input0) = 1 =>
       /\ pc # "exit"
       /\ iteration_limit = IterationLimit
       /\ nsubst = 0
       /\ argvp = original_argv
       /\ argcp = 1

\* Element 0 names a readable file and the call returned it as it was.
C10_Witness ==
  /\ pc = "returned"
  /\ input0 = <<Ref(<<"r">>)>>
  /\ Vector = input0

\* ------------------------------------------------------ claims C11 .. C20

\* The element at Idx is a candidate whose path stat() or fopen() fails on.
AtUnresolvable ==
  /\ AtCandidate
  /\ FileKind(Path) \in {"missing", "unreadable"}

\* C11 as stated: whenever the cursor is on an '@' element whose path is
\* missing or cannot be opened, the step leaves the vector and the count as
\* they are, raises no error and moves to the next index.
C11_UnresolvableAlwaysSkipped ==
  [][AtUnresolvable =>
       /\ pc' = "loop" /\ exitcode' = 0
       /\ i' = Idx
       /\ argcp' = argcp /\ Vector' = Vector]_vars

\* C11, amended: the same, unless this element is the candidate whose
\* decrement brings the budget to zero (then the call exits with status 1
\* before stat is tried); later resolvable references are still expanded:
\* [p, @m, @r] returns [p, @m, -a, -b] and [p, @u, @r] returns
\* [p, @u, -a, -b].
C11_UnresolvableSkippedWithinBudget ==
  /\ [][(AtUnresolvable /\ iteration_limit - 1 # 0) =>
          /\ pc' = "loop" /\ exitcode' = 0
          /\ i' = Idx
          /\ argcp' = argcp /\ Vector' = Vector
          /\ argvp' = argvp /\ nsubst' = nsubst]_vars
  /\ [][(AtUnresolvable /\ iteration_limit - 1 = 0) =>
          (pc' = "exit" /\ exitcode' = 1)]_vars
  /\ [](pc = "returned" /\ input0 = <<Prog, Ref(<<"m">>), Ref(<<"r">>)>> =>
          Vector = <<Prog, Ref(<<"m">>), Opt("a"), Opt("b")>>)
  /\ [](pc = "returned" /\ input0 = <<Prog, Ref(<<"u">>), Ref(<<"r">>)>> =>
          Vector = <<Prog, Ref(<<"u">>), Opt("a"), Opt("b")>>)

C11_Witness ==
  /\ pc = "returned"
  /\ input0 = <<Prog, Ref(<<"m">>), Ref(<<"r">>)>>
  /\ Vector = <<Prog, Ref(<<"m">>), Opt("a"), Opt("b")>>
  /\ argcp = 4

\* buildargv reached the end of its input with a quote open or an escape
\* pending.
EndedOpen == bpc = "done" /\ (squote \/ dquote \/ bsquote)

\* C12: the moving pointer never passes the terminator, and no whitespace
\* skip reads beyond it; buildargv always finishes; for an input that ends
\* inside a quote or after an unescaped backslash it returns (no error
\* exists) a vector with the sentinel after its last element, and the last
\* element is what was collected:  'a<space>a  yields [a a],  "a  yields
\* [a],  a\  yields [a].
C12_UnterminatedClosesAtEnd ==
  /\ [](pos <= Len(input) + 1)
  /\ [](bpc \in {"top", "scan"} => consume_whitespace(input, pos) <= Len(input) + 1)
  /\ [](Cur # OOB)
  /\ <>(bpc \in {"done", "null"})
  /\ [](EndedOpen =>
          /\ ~isnull
          /\ pos = Len(input) + 1
          /\ argc >= 1
          /\ argv[argc] = StrSlot(copybuf)
          /\ argv[argc + 1] = NullSlot)
  /\ [](bpc = "done" /\ input = <<"'", "a", " ", "a">> =>
          BuildResult = << <<"a", " ", "a">> >> /\ squote)
  /\ [](bpc = "done" /\ input = <<"\"", "a">> =>
          BuildResult = << <<"a">> >> /\ dquote)
  /\ [](bpc = "done" /\ input = <<"a", "\\">> =>
          BuildResult = << <<"a">> >> /\ bsquote)

C12_Witness ==
  /\ EndedOpen
  /\ input = <<"'", "a", " ", "a">>
  /\ BuildResult = << <<"a", " ", "a">> >>
  /\ argv[2] = NullSlot

Str_foobarbaz == <<"f", "o", "o", "'", "b", "a", "r", "'", "b", "a", "z">>

\* C13: with no escape pending, a quote character that opens or closes a
\* mode is not copied and does not end the argument, and inside one mode the
\* other quote character is appended and changes no mode; foo'bar'baz yields
\* the one element foobarbaz.
C13_QuotesStrippedAndJoined ==
  /\ [][(Scanning /\ ~bsquote /\ ~squote /\ ~dquote /\ Cur \in {"'", "\""}) =>
          /\ copybuf' = copybuf
          /\ squote' = (Cur = "'") /\ dquote' = (Cur = "\"")
          /\ argc' = argc /\ bpc' = "scan"]_vars
  /\ [][(Scanning /\ ~bsquote /\ squote /\ Cur \in {"'", "\""}) =>
          /\ copybuf' = (IF Cur = "'" THEN copybuf ELSE Append(copybuf, Cur))
          /\ squote' = (Cur # "'") /\ dquote' = dquote
          /\ argc' = argc /\ bpc' = "scan"]_vars
  /\ [][(Scanning /\ ~bsquote /\ dquote /\ Cur \in {"'", "\""}) =>
          /\ copybuf' = (IF Cur = "\"" THEN copybuf ELSE Append(copybuf, Cur))
          /\ dquote' = (Cur # "\"") /\ squote' = squote
          /\ argc' = argc /\ bpc' = "scan"]_vars
  /\ [](bpc = "done" /\ input = Str_foobarbaz =>
          BuildResult = << <<"f", "o", "o", "b", "a", "r", "b", "a", "z">> >>)
  /\ [](bpc = "done" /\ input = <<"a", "'", "\"", "'">> =>
          BuildResult = << <<"a", "\"">> >>)

C13_Witness ==
  /\ bpc = "done"
  /\ input = Str_foobarbaz
  /\ BuildResult = << <<"f", "o", "o", "b", "a", "r", "b", "a", "z">> >>

\* The depth-first, left-to-right expansion of one element and of a
\* sequence of elements: an element that is not a reference to a readable
\* file stands for itself, a reference stands for the expansion of the
\* replacement its file gives.  `fuel' bounds the nesting.
RECURSIVE ExpandElem(_, _)
RECURSIVE ExpandSeq(_, _)
ExpandElem(e, fuel) ==
  IF fuel > 0 /\ CharAt(e, 1) = "@" /\ FileKind(Tail(e)) = "file"
  THEN ExpandSeq(Replacement(Tail(e)), fuel - 1)
  ELSE <<e>>
ExpandSeq(v, fuel) ==
  IF v = <<>> THEN <<>>
  ELSE ExpandElem(Head(v), fuel) \o ExpandSeq(Tail(v), fuel)

\* C14: a substitution leaves the cursor so that the next index examined
\* is the spliced index itself; no step changes an element before the
\* cursor; and a call that returns has produced element 0 followed by the
\* depth-first, left-to-right expansion of the other elements.
C14_RescanDepthFirst ==
  /\ [][Resolving => (pc' = "loop" /\ i' + 1 = Idx)]_vars
  /\ [][pc = "loop" =>
          (argcp' >= i + 1 /\ SubSeq(Vector', 1, i + 1) = SubSeq(Vector, 1, i + 1))]_vars
  /\ [](pc = "returned" =>
          /\ Vector = <<input0[1]>> \o ExpandSeq(Tail(input0), IterationLimit)
          /\ argcp = 1 + Len(ExpandSeq(Tail(input0), IterationLimit)))

\* The empty replacement of @e let @r move into its slot, where it was
\* examined and expanded.
C14_Witness ==
  /\ pc = "returned"
  /\ input0 = <<Prog, Ref(<<"e">>), Ref(<<"r">>)>>
  /\ Vector = <<Prog, Opt("a"), Opt("b")>>
  /\ nsubst = 2

\* As many references to a missing file as the ceiling, after element 0.
AllMissingVector == <<Prog>> \o [k \in 1..IterationLimit |-> Ref(<<"m">>)]

TooMany == "too many @-files encountered"

\* C15: the budget starts at the ceiling; a step decrements it, by one, if
\* and only if the cursor lands on an element at index >= 1 that begins with
\* '@', whatever its path is; the call exits with the too-many diagnostic
\* exactly in the step whose decrement reaches zero; so there are never more
\* than IterationLimit - 1 substitutions, and a vector with IterationLimit
\* references to a missing file exits with none.  (The other exit, for a
\* directory, is C9's.)
C15_BudgetPerCandidate ==
  /\ iteration_limit = IterationLimit
  /\ [][AtCandidate => (Idx >= 1 /\ iteration_limit' = iteration_limit - 1)]_vars
  /\ [][~AtCandidate => iteration_limit' = iteration_limit]_vars
  /\ [][(pc' = "exit" /\ diag' = TooMany) <=> (AtCandidate /\ iteration_limit' = 0)]_vars
  /\ [](iteration_limit >= 0 /\ (iteration_limit = 0 <=> (pc = "exit" /\ diag = TooMany)))
  /\ [](nsubst <= IterationLimit - 1)
  /\ [](input0 = AllMissingVector => (nsubst = 0 /\ pc # "returned"))

C15_Witness ==
  /\ pc = "exit"
  /\ diag = TooMany
  /\ input0 = AllMissingVector
  /\ nsubst = 0
  /\ iteration_limit = 0
  /\ Vector = input0

\* expandargv has finished: it returned or it called exit.
Finished == pc \in {"returned", "exit"}

\* C16: every call finishes, by returning or by exit, whatever the vector
\* and the files (the references to s, to p and q, and to t among them).
\* What makes it so: each step of the loop either uses up one unit of a
\* budget that never goes below zero, or leaves the budget alone and moves
\* the cursor one element closer to the end of the vector.
C16_AlwaysFinishes ==
  /\ <>Finished
  /\ [](pc = "loop" => (iteration_limit >= 1 /\ i >= 0 /\ i <= argcp - 1))
  /\ [][pc = "loop" =>
          \/ iteration_limit' = iteration_limit - 1 /\ iteration_limit' >= 0
          \/ /\ iteration_limit' = iteration_limit
             /\ argcp' - i' < argcp - i
             /\ argcp' - i' >= 0]_vars

\* The cycle through p and q was cut off by the budget.
C16_Witness ==
  /\ pc = "exit"
  /\ diag = TooMany
  /\ input0 = <<Prog, Ref(<<"p">>)>>
  /\ nsubst = IterationLimit - 1

\* The three flags of the tokenizer are clear.
FlagsClear == ~squote /\ ~dquote /\ ~bsquote

\* C17: squote and dquote are never both set; with bsquote set, the next
\* character processed is appended as it is, whatever it is, and clears
\* bsquote and nothing else; an argument that ends at a whitespace character
\* ends with the three flags clear, and every argument starts with them
\* clear.
C17_FlagDiscipline ==
  /\ [](~(squote /\ dquote))
  /\ [][(Scanning /\ bsquote) =>
          /\ ~bsquote'
          /\ copybuf' = Append(copybuf, Cur)
          /\ pos' = pos + 1
          /\ squote' = squote /\ dquote' = dquote]_vars
  /\ [][(Scanning /\ ~bsquote /\ bsquote') =>
          (Cur = "\\" /\ copybuf' = copybuf)]_vars
  /\ [][(bpc = "scan" /\ argc' = argc + 1 /\ Cur \in Whitespace) =>
          (FlagsClear /\ FlagsClear')]_vars
  /\ [](bpc = "top" => FlagsClear)
  /\ [](bpc = "scan" /\ copybuf = <<>> /\ argstart = pos => FlagsClear)

\* a\ b c : the escaped space went into the first argument, the second
\* space ended it, and the next argument is about to start.
C17_Witness ==
  /\ input = Str_a_esc_b_c
  /\ bpc = "top"
  /\ BuildResult = << <<"a", " ", "b">> >>

\* buildargv's array: strings in slots 0 .. argc-1, NULL in slot argc, all
\* of it inside the maxargc slots allocated.
BuildSentinel ==
  /\ Len(argv) = maxargc
  /\ argc + 1 <= maxargc
  /\ \A k \in 1..argc : argv[k].tag = "str"
  /\ argv[argc + 1] = NullSlot

\* expandargv's vector: pointers to live strings in slots 0 .. *argcp-1,
\* NULL in slot *argcp, all of it inside the live array *argvp.
ExpandSentinel ==
  /\ vecs[argvp].live
  /\ argcp >= 1
  /\ Len(vecs[argvp].slots) >= argcp + 1
  /\ \A k \in 0..(argcp - 1) :
        LET slot == SlotAt(vecs[argvp].slots, k)
        IN slot.tag = "ptr" /\ slot.addr \in 1..Len(strs) /\ strs[slot.addr].live
  /\ SlotAt(vecs[argvp].slots, argcp) = NullPtr
  /\ CountToNull(vecs[argvp].slots) = argcp

\* C18: in buildargv, once the array exists, and after every argument
\* stored, slots 0 .. argc-1 hold strings and slot argc the sentinel; the
\* store of lines 274-276 happens with argc + 1 < maxargc, so both slots it
\* writes exist.  In expandargv, at the call and after every splice, slots
\* 0 .. count-1 point to live strings and slot count is the first NULL; the
\* array of a splice has count + replacementLength + 1 slots, count being
\* the count before the splice, which holds every slot written.
C18_SentinelInvariant ==
  /\ [](bpc \in {"scan", "top", "done"} /\ maxargc > 0 => BuildSentinel)
  /\ [](bpc = "scan" => (maxargc > 0 /\ argc + 1 < maxargc))
  /\ [][argc' = argc + 1 =>
          /\ argc + 1 < maxargc
          /\ maxargc' = maxargc
          /\ argv'[argc'] = StrSlot(copybuf)
          /\ \A k \in 1..argc : argv'[k] = argv[k]]_vars
  /\ [](pc # "idle" => ExpandSentinel)
  /\ [][nsubst' = nsubst + 1 =>
          /\ Len(vecs'[argvp'].slots) = argcp + (argcp' - argcp + 1) + 1
          /\ Len(vecs'[argvp'].slots) >= argcp' + 1]_vars

\* A reference was replaced by more than one element, in an array that
\* realloc moved.
C18_Witness ==
  /\ pc = "loop"
  /\ nsubst = 1
  /\ argcp = Len(input0) + 1
  /\ Len(vecs) = 3
  /\ Idx + 1 < Len(input0)

\* The paths a reference cannot be resolved through: stat or fopen fails, or
\* the file cannot be read.
Unresolvable(path) == FileKind(path) \in {"missing", "unreadable", "noseek"}

\* C19: when expandargv has returned, every element at index >= 1 that
\* begins with '@' names a path that is missing or cannot be read, none
\* names a file that would be substituted, and a second call on the result,
\* with a fresh budget, returns with the same elements.
C19_NothingLeftToResolve ==
  pc = "returned" =>
    /\ \A k \in 2..Len(Vector) :
          CharAt(Vector[k], 1) = "@" =>
            (Unresolvable(Tail(Vector[k])) /\ FileKind(Tail(Vector[k])) # "file")
    /\ expandargv(Vector) = [status |-> "returned", vec |-> Vector]

\* A call that substituted @r and kept the reference to an unreadable file.
C19_Witness ==
  /\ pc = "returned"
  /\ nsubst = 1
  /\ Vector = <<Prog, Opt("a"), Opt("b"), Ref(<<"u">>)>>

\* The input holds a character that is not whitespace.
HasNonWhitespace(s) == \E k \in 1..Len(s) : s[k] \notin Whitespace

\* The characters of the input the current argument was scanned from.
ArgText == [k \in 1..(pos - argstart) |-> input[argstart + k - 1]]

\* A character that can be scanned without anything being copied: a quote
\* character, or a backslash that is the last character of the input.
CopiesNothing(k) ==
  \/ input[k] \in {"'", "\""}
  \/ input[k] = "\\" /\ k = Len(input)

\* C20: for an input with a character that is not whitespace, one more
\* whitespace character in front gives the same arguments; for an input
\* that ends with the three flags clear, one more whitespace character at
\* the end gives the same arguments; and an argument is stored empty only if
\* the input is all whitespace (then it is the only argument) or if every
\* character it was scanned from is a quote character or the backslash that
\* ends the input.
C20_WhitespaceAtTheEnds ==
  /\ [](bpc = "done" /\ HasNonWhitespace(input) =>
          \A w \in {" ", "\n"} : buildargv(<<w>> \o input) = BuildResult)
  /\ [](bpc = "done" /\ FlagsClear =>
          \A w \in {" ", "\n"} : buildargv(input \o <<w>>) = BuildResult)
  /\ [](bpc = "done" /\ ~HasNonWhitespace(input) => BuildResult = << <<>> >>)
  /\ [][(bpc = "scan" /\ argc' = argc + 1 /\ copybuf = <<>>) =>
          \/ ~HasNonWhitespace(input) /\ argc = 0 /\ ArgText = <<>>
          \/ /\ HasNonWhitespace(input)
             /\ ArgText # <<>>
             /\ \A k \in argstart..(pos - 1) : CopiesNothing(k)]_vars

\* Whitespace on both sides of an argument made of two quote characters:
\* one element, the empty string.
C20_Witness ==
  /\ bpc = "done"
  /\ input = <<" ", "'", "'", " ">>
  /\ BuildResult = << <<>> >>
  /\ FlagsClear

====
